---- MODULE Spec2Model ----
(***************************************************************************)
(* Authentication flows of app/auth/views.py: login, register, logout,     *)
(* change-password, password-reset request and password reset by token,    *)
(* together with the message catalog Msg of app/__init__.py.               *)
(*                                                                         *)
(* The User document, the password hasher, the reset-token generator and   *)
(* the mailer live in app/models.py and app/email.py; the handlers only    *)
(* call them.  Those collaborators are modelled from their written         *)
(* contract and are marked as such next to their definitions.              *)
(***************************************************************************)
EXTENDS Integers, Sequences, FiniteSets, TLC

VARIABLES
    store,      \* the user collection: a sequence of user documents
    session,    \* the browser's login session (flask_login)
    tokens,     \* reset tokens issued so far; a token is its index
    resp,       \* what the last request produced: response, flashes, log, mail
    lastSet,    \* history: per email, the password of the last hash written
    reqs        \* registration requests between their pre-check and their save

vars == <<store, session, tokens, resp, lastSet, reqs>>

---------------------------------------------------------------------------
(* Bounds and input domains *)

MaxTokens == 1
MaxRequests == 2

Emails == {"a@example.com", "b@example.com"}
Passwords == {"Secret1!", "Secret2!"}
FirstNames == {"Ana"}
Salts == {1}
None == "None"

\* A URL string is a sequence of pieces: the piece "/" is the slash character,
\* every other piece is a run of characters without a slash.
NextStrings ==
    { <<>>,
      <<"/", "dashboard">>,
      <<"dashboard">>,
      <<"http:", "/", "/", "evil.example.com">>,
      <<"/", "/", "evil.example.com">> }

\* request.args.get("next"): absent, or one of the strings above
NextArgs ==
    {[present |-> FALSE, val |-> <<>>]} \cup
    {[present |-> TRUE, val |-> s] : s \in NextStrings}

---------------------------------------------------------------------------
(* The message catalog, app/__init__.py *)

Msg_Flash ==
    [ LOGOUT_USER |-> "Ha cerrado sesion correctamente.",
      NEW_USER |-> "Bienvenido {first_name}.",
      INVALID_CREDENTIALS |-> "Correo o contrasena invalidos." ]

Msg_UserRegistration ==
    [ ERROR_REQUIRED_FIELD |-> "Este campo es obligatorio.",
      ERROR_PASSWORD_MATCH |-> "Las contrasenas deben coincidir.",
      ERROR_EMAIL_IN_USE |-> "La direccion de correo ya ha sido registrada.",
      ERROR_ACCEPT_TERMS |-> "Debe aceptar los terminos y condiciones para continuar.",
      ERROR_INVALID_EMAIL |-> "Por favor introduzca una direccion de correo valida.",
      ERROR_PASSWORD_LENGTH |-> "La contrasena debe medir entre 8 y 64 caracteres.",
      ERROR_PASSWORD_AT_LEAST_ONE_NUMBER |-> "La contrasena debe conenter al menos un numero.",
      ERROR_PASSWORD_AT_LEAST_ONE_UPPERCASE |-> "La contrasena debe conenter al menos una letra mayuscula.",
      ERROR_PASSWORD_AT_LEAST_ONE_LOWERCASE |-> "La contrasena debe conenter al menos una letra minuscula.",
      ERROR_PASSWORD_AT_LEAST_ONE_SPECIAL_CHARACTER |-> "La contrasena debe contener al menos un caracter especial: {}.",
      ACCEPT_TERMS |-> "He leido y acepto los terminos y condiciones." ]

\* class Msg: the nested classes it defines
Msg == [ Flash |-> Msg_Flash, UserRegistration |-> Msg_UserRegistration ]

\* Msg.<cls>.<name> evaluates when both attributes exist; otherwise Python
\* raises AttributeError at the point of the lookup.
HasMsg(cls, name) == cls \in DOMAIN Msg /\ name \in DOMAIN Msg[cls]

\* The text of Msg.<cls>.<name> (read only under HasMsg)
MsgText(cls, name) == Msg[cls][name]

---------------------------------------------------------------------------
(* URLs and responses *)

\* url_for(endpoint): the application's own URL of an endpoint
UrlFor(endpoint) == [endpoint |-> endpoint, raw |-> <<>>, arg |-> <<>>]

\* url_for(endpoint, next=n)
UrlForNext(endpoint, n) == [endpoint |-> endpoint, raw |-> <<>>, arg |-> <<n>>]

\* a URL given as a string by the client
RawUrl(s) == [endpoint |-> "", raw |-> s, arg |-> <<>>]

NoUrl == [endpoint |-> "-", raw |-> <<>>, arg |-> <<>>]

\* str.startswith('/')
StartsWithSlash(s) == Len(s) > 0 /\ s[1] = "/"

\* a log line: the text printed, its string arguments, the documents dumped
LogLine(text, args) == [text |-> text, args |-> args, docs |-> <<>>]

\* the empty response a handler starts from
Blank(handler) ==
    [ handler |-> handler, case |-> "", status |-> "", target |-> NoUrl,
      flash |-> <<>>, log |-> <<>>, mail |-> <<>>,
      email |-> None, password |-> None, token |-> 0 ]

\* redirect(url)
Redirect(r, url) == [r EXCEPT !.status = "redirect", !.target = url]

\* render_template(...)
Render(r) == [r EXCEPT !.status = "render"]

\* an exception leaves the handler: the framework answers 500
ServerError(r) == [r EXCEPT !.status = "error", !.target = NoUrl]

\* print(...)
Log(r, line) == [r EXCEPT !.log = Append(@, line)]

\* flash(Msg.<cls>.<name>.format(args)): the message text with its arguments
Flash(r, cls, name, args) ==
    [r EXCEPT !.flash = Append(@, [text |-> MsgText(cls, name), args |-> args])]

---------------------------------------------------------------------------
(* Collaborators of the handlers: app/models.py, app/email.py, flask_login *)

PwCode == ("Secret1!" :> 3) @@ ("Secret2!" :> 5)

\* the one-way salted digest of a plaintext
Digest(salt, p) == (salt * 7 + PwCode[p]) % 11

\* generate_password_hash(plaintext), with the salt it drew
generate_password_hash(p, salt) == [salt |-> salt, digest |-> Digest(salt, p)]

\* user.check_password(plaintext): verify against the stored hash
check_password(u, p) == Digest(u.password_hash.salt, p) = u.password_hash.digest

\* User.get_user(email): the position of the first document with that email,
\* 0 for None
get_user(email) ==
    IF \E i \in 1..Len(store) : store[i].email = email
    THEN CHOOSE i \in 1..Len(store) :
            /\ store[i].email = email
            /\ \A j \in 1..(i - 1) : store[j].email # email
    ELSE 0

\* User.create_new_user(...): a new, unsaved document holding the hash
create_new_user(email, first_name, password, salt) ==
    [ email |-> email, first_name |-> first_name,
      password_hash |-> generate_password_hash(password, salt) ]

\* NotUnique for a collection without a unique index on email
NotUnique_mut(doc) == FALSE

\* the unique index on email: inserting doc would raise NotUniqueError
NotUnique(doc) == \E i \in 1..Len(store) : store[i].email = doc.email

\* new_user.save(): insert of a new document
save_new(doc) == Append(store, doc)

\* user.save() after user.password_hash = h: update of document i
save_hash(i, h) == [store EXCEPT ![i].password_hash = h]

\* new_user.to_json(): the document's fields as saved
to_json(doc) ==
    [ text |-> "to_json", args |-> <<doc.email, doc.first_name>>,
      docs |-> <<doc.password_hash>> ]

\* validate_token for a token that stays valid after it has been used
validate_token_mut(t) ==
    IF t \in 1..Len(tokens) /\ tokens[t].status \in {"valid", "consumed"}
    THEN get_user(tokens[t].email)
    ELSE 0

\* the token generator's validate(token): the bound user when the token was
\* issued, is unexpired and unconsumed and its user still exists; else 0
validate_token(t) ==
    IF t \in 1..Len(tokens) /\ tokens[t].status = "valid"
    THEN get_user(tokens[t].email)
    ELSE 0

\* user.generate_reset_token(): the token list after issuing one for email
generate_reset_token(email) == Append(tokens, [email |-> email, status |-> "valid"])

\* flask_login's session states
Anonymous == [user |-> None, fresh |-> FALSE, remember |-> FALSE]

\* login_user(user, remember=...)
login_user(email, remember) == [user |-> email, fresh |-> TRUE, remember |-> remember]

\* current_user.is_anonymous
is_anonymous == session.user = None

---------------------------------------------------------------------------
(* login, views.py 10-44 *)

\* lines 14-16: flash(Msg.Flash.ALREADY_LOGGED_IN); redirect home
LoginAlreadyLoggedIn(r) ==
    IF HasMsg("Flash", "ALREADY_LOGGED_IN")
    THEN Redirect(Flash(r, "Flash", "ALREADY_LOGGED_IN", <<>>), UrlFor("main.index"))
    ELSE ServerError(r)

\* LoginNoUser with a message of its own for the unknown email
LoginNoUser_mut(r, email) ==
    LET r1 == Log(r, LogLine("[DEBUG] User not found: {}", <<email>>))
    IN  Redirect(Flash(r1, "UserRegistration", "ERROR_INVALID_EMAIL", <<>>), UrlFor("auth.login"))

\* lines 23-26: no user with that email
LoginNoUser(r, email) ==
    LET r1 == Log(r, LogLine("[DEBUG] User not found: {}", <<email>>))
    IN  IF HasMsg("Flash", "INVALID_CREDENTIALS")
        THEN Redirect(Flash(r1, "Flash", "INVALID_CREDENTIALS", <<>>), UrlFor("auth.login"))
        ELSE ServerError(r1)

\* lines 29-31: where a successful login goes
NextTarget(next) ==
    IF ~next.present \/ ~StartsWithSlash(next.val)
    THEN UrlFor("main.index")
    ELSE RawUrl(next.val)

\* lines 33-36: the password does not verify
LoginBadPassword(r, email, password, next) ==
    LET r1 == Log(r, LogLine("[DEBUG] Invalid user credentials: {} {}", <<email, password>>))
    IN  IF HasMsg("Flash", "INVALID_CREDENTIALS")
        THEN Redirect(Flash(r1, "Flash", "INVALID_CREDENTIALS", <<>>),
                      UrlForNext("auth.login", NextTarget(next)))
        ELSE ServerError(r1)

\* lines 38-42: the session is established and the client sent to next
LoginSuccess(r, u, next) ==
    Redirect(Log(r, LogLine("[DEBUG] Login from user: {} {}", <<u.email, u.first_name>>)),
             NextTarget(next))

login(valid, email, password, remember_me, next) ==
    LET r0 == Blank("login")
        rf == [r0 EXCEPT !.email = email, !.password = password]
        u  == get_user(email)
    IN
    /\ UNCHANGED <<store, tokens, lastSet, reqs>>
    /\ IF ~is_anonymous THEN
          /\ resp' = LoginAlreadyLoggedIn([r0 EXCEPT !.case = "not_anonymous"])
          /\ UNCHANGED session
       ELSE IF ~valid THEN
          /\ resp' = Render([r0 EXCEPT !.case = "form"])
          /\ UNCHANGED session
       ELSE IF u = 0 THEN
          /\ resp' = LoginNoUser([rf EXCEPT !.case = "no_user"], email)
          /\ UNCHANGED session
       ELSE IF ~check_password(store[u], password) THEN
          /\ resp' = LoginBadPassword([rf EXCEPT !.case = "bad_password"], email, password, next)
          /\ UNCHANGED session
       ELSE
          /\ session' = login_user(store[u].email, remember_me)
          /\ resp' = LoginSuccess([rf EXCEPT !.case = "ok"], store[u], next)

---------------------------------------------------------------------------
(* register, views.py 46-73 *)

IdleRequest == [pc |-> "idle", email |-> None, first_name |-> None, password |-> None]

\* lines 50-53: the pre-check found an account
RegisterEmailInUse(r, email) ==
    LET r1 == Log(r, LogLine("[DEBUG] User with email {} already registered.", <<email>>))
    IN  IF HasMsg("UserRegistration", "ERROR_EMAIL_IN_USE")
        THEN Redirect(Flash(r1, "UserRegistration", "ERROR_EMAIL_IN_USE", <<>>),
                      UrlFor("auth.register"))
        ELSE ServerError(r1)

\* lines 64-66: the debug dump of the new document
RegisterDump(r, doc) ==
    Log(Log(Log(r, LogLine("[DEBUG] New user created. Showing JSON:", <<>>)),
            to_json(doc)),
        LogLine("[DEBUG] New user EOF.", <<>>))

\* lines 69-71: after the save
RegisterWelcome(r, doc) ==
    IF HasMsg("Flash", "NEW_USER")
    THEN Redirect(Flash(r, "Flash", "NEW_USER", <<doc.first_name>>), UrlFor("main.index"))
    ELSE ServerError(r)

\* lines 55-71: create, dump, save, log in, welcome
RegisterCommit(email, first_name, password, salt) ==
    LET doc == create_new_user(email, first_name, password, salt)
        r0  == [Blank("register") EXCEPT !.email = email, !.password = password]
        r1  == RegisterDump(r0, doc)
    IN
    /\ UNCHANGED tokens
    /\ IF NotUnique(doc) THEN
          \* new_user.save() raises; nothing in the handler catches it
          /\ resp' = ServerError([r1 EXCEPT !.case = "not_unique"])
          /\ UNCHANGED <<store, session, lastSet>>
       ELSE
          /\ store' = save_new(doc)
          /\ lastSet' = [lastSet EXCEPT ![email] = password]
          /\ session' = login_user(email, FALSE)
          /\ resp' = RegisterWelcome([r1 EXCEPT !.case = "ok"], doc)

\* RegisterPasses without the pre-check of line 50
RegisterPasses_mut(valid, email) == valid

\* lines 48-53 and 73: form validation and the pre-check; TRUE when the
\* request goes on to create the user
RegisterPasses(valid, email) == valid /\ get_user(email) = 0

RegisterReject(valid, email, password) ==
    LET r0 == Blank("register")
    IN
    /\ ~RegisterPasses(valid, email)
    /\ resp' = IF ~valid
               THEN Render([r0 EXCEPT !.case = "form"])
               ELSE RegisterEmailInUse([r0 EXCEPT !.case = "email_in_use",
                                                  !.email = email, !.password = password],
                                       email)
    /\ UNCHANGED <<store, session, tokens, lastSet>>

\* a request that runs to completion without interleaving
register(valid, email, first_name, password, salt) ==
    /\ UNCHANGED reqs
    /\ \/ RegisterReject(valid, email, password)
       \/ /\ RegisterPasses(valid, email)
          /\ RegisterCommit(email, first_name, password, salt)

\* request q up to and including the pre-check of line 50
RegisterBegin(q, valid, email, first_name, password) ==
    /\ reqs[q].pc = "idle"
    /\ \/ /\ RegisterReject(valid, email, password)
          /\ UNCHANGED reqs
       \/ /\ RegisterPasses(valid, email)
          /\ reqs' = [reqs EXCEPT ![q] = [pc |-> "checked", email |-> email,
                                          first_name |-> first_name, password |-> password]]
          /\ UNCHANGED <<store, session, tokens, lastSet, resp>>

\* request q from line 55 to its response
RegisterFinish(q, salt) ==
    /\ reqs[q].pc = "checked"
    /\ RegisterCommit(reqs[q].email, reqs[q].first_name, reqs[q].password, salt)
    /\ reqs' = [reqs EXCEPT ![q] = IdleRequest]

---------------------------------------------------------------------------
(* logout, views.py 75-80 *)

logout ==
    LET r0 == Blank("logout")
    IN
    /\ UNCHANGED <<store, tokens, lastSet, reqs>>
    /\ IF ~is_anonymous THEN
          /\ session' = Anonymous
          /\ resp' = IF HasMsg("Flash", "LOGOUT_USER")
                     THEN Redirect(Flash([r0 EXCEPT !.case = "ok"], "Flash", "LOGOUT_USER", <<>>),
                                   UrlFor("main.index"))
                     ELSE ServerError([r0 EXCEPT !.case = "ok"])
       ELSE
          /\ UNCHANGED session
          /\ resp' = Redirect([r0 EXCEPT !.case = "anonymous"], UrlFor("main.index"))

---------------------------------------------------------------------------
(* change_password, views.py 83-116 *)

\* line 84, @fresh_login_required: the handler runs only for an authenticated
\* user whose session is fresh
fresh_login(cu) == session.user # None /\ cu # 0 /\ session.fresh

\* lines 93-96: flash(Msg.Flash.SAME_AS_OLD_PASSWORD), print, redirect back
ChangeSameAsOld(r, email) ==
    IF HasMsg("Flash", "SAME_AS_OLD_PASSWORD")
    THEN Redirect(Log(Flash(r, "Flash", "SAME_AS_OLD_PASSWORD", <<>>),
                      LogLine("[DEBUG] User {} tried to change to same password.", <<email>>)),
                  UrlFor("auth.change_password"))
    ELSE ServerError(r)

\* lines 98-101: flash(Msg.Flash.INVALID_OLD_PASSWORD), print, redirect back
ChangeInvalidOld(r, email) ==
    IF HasMsg("Flash", "INVALID_OLD_PASSWORD")
    THEN Redirect(Log(Flash(r, "Flash", "INVALID_OLD_PASSWORD", <<>>),
                      LogLine("[DEBUG] Password change request, incorrect old password. User: {}",
                              <<email>>)),
                  UrlFor("auth.change_password"))
    ELSE ServerError(r)

\* lines 106-108: the signed-in user is no longer in the database
ChangeNotFound(r, email) ==
    Redirect(Log(r, LogLine("[DEBUG] Password change request, user not found: {}", <<email>>)),
             UrlFor("error.not_found"))

\* lines 113-115: after the save
ChangeDone(r, email) ==
    LET r1 == Log(r, LogLine("[DEBUG] Password change from user {}.", <<email>>))
    IN  IF HasMsg("Flash", "PASSWORD_CHANGE_SUCCESFUL")
        THEN Redirect(Flash(r1, "Flash", "PASSWORD_CHANGE_SUCCESFUL", <<>>), UrlFor("main.index"))
        ELSE ServerError(r1)

\* ChangeHash hashing the old password field instead of the new one
ChangeHash_mut(old_password, password, salt) == generate_password_hash(old_password, salt)

\* line 111: the hash written for the new password
ChangeHash(old_password, password, salt) == generate_password_hash(password, salt)

change_password(valid, old_password, password, salt) ==
    LET r0 == Blank("change_password")
        cu == get_user(session.user)
        rf == [r0 EXCEPT !.email = session.user, !.password = password]
        u  == get_user(store[cu].email)
    IN
    /\ UNCHANGED <<session, tokens, reqs>>
    /\ IF ~fresh_login(cu) THEN
          /\ resp' = [r0 EXCEPT !.case = "unauthorized", !.status = "unauthorized"]
          /\ UNCHANGED <<store, lastSet>>
       ELSE IF ~valid THEN
          /\ resp' = Render([r0 EXCEPT !.case = "form"])
          /\ UNCHANGED <<store, lastSet>>
       ELSE IF check_password(store[cu], old_password) /\ old_password = password THEN
          /\ resp' = ChangeSameAsOld([rf EXCEPT !.case = "same_as_old"], store[cu].email)
          /\ UNCHANGED <<store, lastSet>>
       ELSE IF ~check_password(store[cu], old_password) THEN
          /\ resp' = ChangeInvalidOld([rf EXCEPT !.case = "invalid_old"], store[cu].email)
          /\ UNCHANGED <<store, lastSet>>
       ELSE IF u = 0 THEN
          /\ resp' = ChangeNotFound([rf EXCEPT !.case = "not_found"], store[cu].email)
          /\ UNCHANGED <<store, lastSet>>
       ELSE
          /\ store' = save_hash(u, ChangeHash(old_password, password, salt))
          /\ lastSet' = [lastSet EXCEPT ![store[u].email] = password]
          /\ resp' = ChangeDone([rf EXCEPT !.case = "ok"], store[u].email)

---------------------------------------------------------------------------
(* password_reset_request, views.py 122-137 *)

\* lines 133-134: send_email(user.email, Msg.Mail.RESET_PASSWORD_SUBJECT, ...)
ResetRequestMail(r, email, token) ==
    IF HasMsg("Mail", "RESET_PASSWORD_SUBJECT")
    THEN [r EXCEPT !.mail = Append(@, [to |-> email,
                                       subject |-> MsgText("Mail", "RESET_PASSWORD_SUBJECT"),
                                       template |-> "auth/email/reset_password",
                                       token |-> token])]
    ELSE ServerError(r)

\* lines 135-136: flash(Msg.Flash.PASSWORD_RESET_EMAIL_SENT); redirect to login
ResetRequestSent(r) ==
    IF r.status = "error" THEN r
    ELSE IF HasMsg("Flash", "PASSWORD_RESET_EMAIL_SENT")
    THEN Redirect(Flash(r, "Flash", "PASSWORD_RESET_EMAIL_SENT", <<>>), UrlFor("auth.login"))
    ELSE ServerError(r)

password_reset_request(valid, email) ==
    LET r0 == Blank("password_reset_request")
        rf == [r0 EXCEPT !.email = email]
        u  == get_user(email)
    IN
    /\ UNCHANGED <<store, session, lastSet, reqs>>
    /\ IF ~is_anonymous THEN
          /\ resp' = Redirect([r0 EXCEPT !.case = "not_anonymous"], UrlFor("main.index"))
          /\ UNCHANGED tokens
       ELSE IF ~valid THEN
          /\ resp' = Render([r0 EXCEPT !.case = "form"])
          /\ UNCHANGED tokens
       ELSE IF u # 0 THEN
          /\ Len(tokens) < MaxTokens
          /\ tokens' = generate_reset_token(store[u].email)
          /\ resp' = ResetRequestSent(ResetRequestMail([rf EXCEPT !.case = "known"],
                                                       store[u].email, Len(tokens')))
       ELSE
          /\ UNCHANGED tokens
          /\ resp' = ResetRequestSent([rf EXCEPT !.case = "unknown"])

---------------------------------------------------------------------------
(* password_reset, views.py 142-154 *)

\* lines 150-151: flash(Msg.Flash.PASSWORD_CHANGE_SUCCESFUL); redirect to login
ResetDone(r) ==
    IF HasMsg("Flash", "PASSWORD_CHANGE_SUCCESFUL")
    THEN Redirect(Flash(r, "Flash", "PASSWORD_CHANGE_SUCCESFUL", <<>>), UrlFor("auth.login"))
    ELSE ServerError(r)

\* lines 152-153: the token did not validate
ResetInvalid(r) == Redirect(r, UrlFor("main.index"))

\* lines 144-145: an authenticated caller is sent home
ResetNotAnonymous(r) == Redirect(r, UrlFor("main.index"))

\* User.reset_password(token, password) returns True
reset_password_ok(token) == validate_token(token) # 0

password_reset(valid, token, password, salt) ==
    LET r0 == [Blank("password_reset") EXCEPT !.token = token]
        rf == [r0 EXCEPT !.password = password]
        t  == token
        u  == validate_token(t)
    IN
    /\ UNCHANGED <<session, reqs>>
    /\ IF ~is_anonymous THEN
          /\ resp' = ResetNotAnonymous([r0 EXCEPT !.case = "not_anonymous"])
          /\ UNCHANGED <<store, tokens, lastSet>>
       ELSE IF ~valid THEN
          /\ resp' = Render([r0 EXCEPT !.case = "form"])
          /\ UNCHANGED <<store, tokens, lastSet>>
       ELSE IF reset_password_ok(t) THEN
          \* User.reset_password: new hash saved, token consumed
          /\ store' = save_hash(u, generate_password_hash(password, salt))
          /\ tokens' = [tokens EXCEPT ![t].status = "consumed"]
          /\ lastSet' = [lastSet EXCEPT ![store[u].email] = password]
          /\ resp' = ResetDone([rf EXCEPT !.case = "ok", !.email = store[u].email])
       ELSE
          /\ resp' = ResetInvalid([rf EXCEPT !.case = "invalid_token"])
          /\ UNCHANGED <<store, tokens, lastSet>>

---------------------------------------------------------------------------
(* The passage of time *)

\* a reset token reaches its expiry
ExpireToken(t) ==
    /\ t \in 1..Len(tokens)
    /\ tokens[t].status = "valid"
    /\ tokens' = [tokens EXCEPT ![t].status = "expired"]
    /\ UNCHANGED <<store, session, resp, lastSet, reqs>>

\* the browser session ends: a remembered login comes back stale, any other
\* is gone
SessionExpire ==
    /\ session.user # None
    /\ session.fresh
    /\ session' = IF session.remember THEN [session EXCEPT !.fresh = FALSE] ELSE Anonymous
    /\ UNCHANGED <<store, tokens, resp, lastSet, reqs>>

---------------------------------------------------------------------------
(* Specifications *)

Init ==
    /\ store = <<>>
    /\ session = Anonymous
    /\ tokens = <<>>
    /\ resp = Blank("")
    /\ lastSet = [e \in Emails |-> None]
    /\ reqs = [q \in 1..MaxRequests |-> IdleRequest]

Login ==
    \E valid \in BOOLEAN, email \in Emails, password \in Passwords,
       remember_me \in BOOLEAN, next \in NextArgs :
        login(valid, email, password, remember_me, next)

Register ==
    \E valid \in BOOLEAN, email \in Emails, first_name \in FirstNames,
       password \in Passwords, salt \in Salts :
        register(valid, email, first_name, password, salt)

Logout == logout

ChangePassword ==
    \E valid \in BOOLEAN, old_password \in Passwords, password \in Passwords, salt \in Salts :
        change_password(valid, old_password, password, salt)

PasswordResetRequest ==
    \E valid \in BOOLEAN, email \in Emails : password_reset_request(valid, email)

PasswordReset ==
    \E valid \in BOOLEAN, token \in 1..(MaxTokens + 1), password \in Passwords, salt \in Salts :
        password_reset(valid, token, password, salt)

Expire == \E t \in 1..MaxTokens : ExpireToken(t)

RegisterStart ==
    \E q \in 1..MaxRequests, valid \in BOOLEAN, email \in Emails,
       first_name \in FirstNames, password \in Passwords :
        RegisterBegin(q, valid, email, first_name, password)

RegisterEnd == \E q \in 1..MaxRequests, salt \in Salts : RegisterFinish(q, salt)

\* every request runs to completion before the next one starts
Next ==
    \/ Login
    \/ Register
    \/ Logout
    \/ ChangePassword
    \/ PasswordResetRequest
    \/ PasswordReset
    \/ Expire
    \/ SessionExpire

Spec == Init /\ [][Next]_vars

\* registration requests interleave between their pre-check and their save
NextConc ==
    \/ RegisterStart
    \/ RegisterEnd
    \/ Login
    \/ Logout

SpecConc == Init /\ [][NextConc]_vars

---------------------------------------------------------------------------
(* Properties *)

\* the flash output holding exactly the one catalog message cls.name
OnlyFlash(r, cls, name) ==
    /\ HasMsg(cls, name)
    /\ r.flash = <<[text |-> MsgText(cls, name), args |-> <<>>]>>

\* C1: a login by an anonymous caller with a valid form that fails, whether
\* because the email has no account or because the password is wrong, flashes
\* exactly the one INVALID_CREDENTIALS message and establishes no session.
C1_LoginFailuresIndistinguishable ==
    (resp.handler = "login" /\ resp.case \in {"no_user", "bad_password"}) =>
        /\ OnlyFlash(resp, "Flash", "INVALID_CREDENTIALS")
        /\ session = Anonymous

C1_Witness ==
    /\ resp.handler = "login"
    /\ resp.case = "bad_password"
    /\ get_user(resp.email) # 0
    /\ \E e \in Emails : get_user(e) = 0

\* an absolute URL (a scheme first) or a network-path reference (two leading
\* slashes): the browser leaves the site
IsExternalUrl(s) ==
    \/ Len(s) >= 1 /\ s[1] = "http:"
    \/ Len(s) >= 2 /\ s[1] = "/" /\ s[2] = "/"

\* C2: a successful login redirects to home or to a local path given as
\* next, and never to an external URL.
C2_NoExternalRedirect ==
    (resp.handler = "login" /\ resp.case = "ok") =>
        /\ resp.status = "redirect"
        /\ \/ resp.target = UrlFor("main.index")
           \/ resp.target.endpoint = "" /\ StartsWithSlash(resp.target.raw)
        /\ ~(resp.target.endpoint = "" /\ IsExternalUrl(resp.target.raw))

\* C3: once an account exists for an email, a registration submitted with
\* that email is answered with the email-in-use flash and a redirect, and it
\* changes neither the user collection nor the session.
C3_DuplicateRegistrationRejected ==
    [][ \A email \in Emails, first_name \in FirstNames, password \in Passwords, salt \in Salts :
            (/\ resp'.handler = "register"
             /\ get_user(email) # 0
             /\ register(TRUE, email, first_name, password, salt)) =>
                /\ resp'.status = "redirect"
                /\ OnlyFlash(resp', "UserRegistration", "ERROR_EMAIL_IN_USE")
                /\ store' = store
                /\ session' = session ]_vars

C3_Witness ==
    /\ resp.handler = "register"
    /\ resp.case = "email_in_use"
    /\ get_user(resp.email) # 0

\* C4: the user collection never holds two documents with the same email,
\* also when registrations with one email interleave between pre-check and
\* save.
C4_EmailUnique ==
    \A i, j \in 1..Len(store) : store[i].email = store[j].email => i = j

C4_Witness ==
    /\ resp.handler = "register"
    /\ resp.case = "not_unique"
    /\ get_user(resp.email) # 0

\* C5: a reset submitted with a token that has already changed a password
\* does not validate: the user collection is unchanged and the caller is
\* redirected home.
C5_TokenSingleUse ==
    [][ \A t \in 1..Len(tokens), password \in Passwords, salt \in Salts :
            (/\ resp'.handler = "password_reset"
             /\ tokens[t].status = "consumed"
             /\ password_reset(TRUE, t, password, salt)) =>
                /\ resp'.case # "ok"
                /\ store' = store
                /\ resp'.status = "redirect"
                /\ resp'.target = UrlFor("main.index") ]_vars

C5_Witness ==
    /\ resp.handler = "password_reset"
    /\ resp.case = "invalid_token"
    /\ resp.token \in 1..Len(tokens)
    /\ tokens[resp.token].status = "consumed"

\* C6: a reset request by an anonymous caller with a valid form is answered
\* with the PASSWORD_RESET_EMAIL_SENT flash and a redirect to login whether or
\* not the account exists; one mail carrying a freshly issued token goes out
\* when it exists and none when it does not.
C6_ResetRequestUniform ==
    (resp.handler = "password_reset_request" /\ resp.case \in {"known", "unknown"}) =>
        /\ resp.status = "redirect"
        /\ resp.target = UrlFor("auth.login")
        /\ OnlyFlash(resp, "Flash", "PASSWORD_RESET_EMAIL_SENT")
        /\ resp.case = "unknown" => resp.mail = <<>>
        /\ resp.case = "known" =>
              /\ Len(resp.mail) = 1
              /\ resp.mail[1].to = resp.email
              /\ resp.mail[1].token \in 1..Len(tokens)

\* C7: a stored hash verifies exactly the password last written for its
\* user, a login succeeds only with that password, and a change-password or
\* reset request that is not carried out leaves every hash as it was.
C7_HashMatchesLastSet ==
    /\ \A i \in 1..Len(store), p \in Passwords :
          check_password(store[i], p) <=> p = lastSet[store[i].email]
    /\ (resp.handler = "login" /\ resp.case = "ok") => resp.password = lastSet[resp.email]

C7_RejectedKeepsHash ==
    (resp'.handler \in {"change_password", "password_reset"} /\ resp'.case # "ok")
        => store' = store

C7_VerifyOnlyLastPassword == []C7_HashMatchesLastSet /\ [][C7_RejectedKeepsHash]_vars

C7_Witness ==
    /\ resp.handler = "change_password"
    /\ resp.case = "ok"
    /\ \E i \in 1..Len(store) :
          /\ store[i].email = resp.email
          /\ check_password(store[i], resp.password)
          /\ \E p \in Passwords : ~check_password(store[i], p)

\* C8: a change-password request whose new password equals the verified old
\* one is answered with the same-as-old flash and a redirect back to the form;
\* one whose old password does not verify is answered with the
\* invalid-old-password flash and the same redirect.
C8_ChangeRejections ==
    /\ (resp.handler = "change_password" /\ resp.case = "same_as_old") =>
          /\ resp.status = "redirect"
          /\ resp.target = UrlFor("auth.change_password")
          /\ OnlyFlash(resp, "Flash", "SAME_AS_OLD_PASSWORD")
    /\ (resp.handler = "change_password" /\ resp.case = "invalid_old") =>
          /\ resp.status = "redirect"
          /\ resp.target = UrlFor("auth.change_password")
          /\ OnlyFlash(resp, "Flash", "INVALID_OLD_PASSWORD")

\* C9: no plaintext password is among the arguments of a printed line, and
\* the user collection holds digests only.
C9_NoPlaintextPassword ==
    /\ \A k \in 1..Len(resp.log) :
          \A a \in 1..Len(resp.log[k].args) : resp.log[k].args[a] \notin Passwords
    /\ \A i \in 1..Len(store) :
          store[i].password_hash \in [salt : Salts, digest : 0..10]

\* C10: an authentication failure, an integrity conflict or a not-found
\* outcome is answered with a redirect that carries at least one flash
\* message, never with a server error.
C10_FailuresRedirectWithFlash ==
    (\/ resp.handler = "login" /\ resp.case \in {"no_user", "bad_password"}
     \/ resp.handler = "password_reset" /\ resp.case = "invalid_token"
     \/ resp.handler = "register" /\ resp.case \in {"email_in_use", "not_unique"}
     \/ resp.handler = "change_password" /\ resp.case = "not_found") =>
        /\ resp.status = "redirect"
        /\ Len(resp.flash) >= 1

====
